---- MODULE Spec2Model ----
(***************************************************************************)
(* State-machine model of the message-debounce engine                      *)
(* (services/message_processor.py, services/redis_service.py) and of the   *)
(* follow-up scheduler (services/followup_service.py, main.py).            *)
(*                                                                         *)
(* Every coroutine is cut at its awaits: one action per stretch of code    *)
(* that runs without yielding to the event loop.  A store call takes       *)
(* effect in the action that resumes after it.                             *)
(***************************************************************************)
EXTENDS Integers, Sequences, FiniteSets, TLC

\* ------------------------------------------------------------------------
\* Bounds of the model
\* ------------------------------------------------------------------------
MaxSubmits == 4

\* ------------------------------------------------------------------------
\* Program constants
\* ------------------------------------------------------------------------
\* Settings.redis_ttl_debounce: the quiet window, in seconds
redis_ttl_debounce == 20
\* add_to_history keeps the last 40 entries (ltrim key -40 -1)
HistoryKeep == 40

\* The clock advances in steps of half a quiet window.
ClockStep == redis_ttl_debounce \div 2
\* Ages above the quiet window are not told apart.
AgeCap == redis_ttl_debounce + ClockStep

NoTask == 0
NoSubmit == <<>>
NoExpiry == -1

\* Text is a sequence of one-character strings, so that `in` (substring)
\* and " ".join are computed and not assumed.
Fragments == { <<"o", "i">>, <<"o", "i", "e">> }
Responses == { <<"r">> }

VARIABLES
    buffer,          \* Redis list {sender}_debounce
    bufferTTL,       \* seconds until the key {sender}_debounce expires
    tasks,           \* every debounce_handler task created, by creation order
    debounce_tasks,  \* _debounce_tasks[sender]: a task id, or NoTask
    inflight,        \* the webhook between add_to_buffer and the arming
    sincePush,       \* seconds since the last fragment was pushed (capped)
    submitted,       \* log of fragments pushed: [text, gap]
    calls,           \* log of on_message invocations: the consolidated texts
    history,         \* Redis list {sender}_history
    replies          \* number of responses delivered by _send_response

VARIABLES
    followup,        \* Redis key {sender}_followup: the record, or NoRecord
    scheduled,       \* schedule_followup has been called for the lead
    day,             \* calendar date (Brazil time), counted in days
    hourIx,          \* index of the local hour in ClockHours
    proc,            \* the scheduler loop and the manual-trigger task
    canceller,       \* a cancel_followup call of the reply path or the admin
    callsMade,       \* manual triggers and cancel calls received so far
    delivered,       \* follow-up messages the gateway accepted for the lead
    cancelledOnce,   \* some write has stored cancelled = true
    sentAfterCancel, \* messages delivered after such a write (capped)
    quietCancel,     \* a cancel completed while the scheduler was not sending
    sentWindow,      \* <<date, period>> of the last wake whose pass delivered
    generationFailed \* some generate_completion call returned nothing

VARIABLES
    blocked,         \* Redis key {sender}_block is set ("true")
    drops            \* webhooks process_webhook returned False for

\* variables of the block flag alone
bvars == <<blocked, drops>>

\* variables of the debounce engine alone
dvars == <<buffer, bufferTTL, tasks, debounce_tasks, inflight, sincePush,
           submitted, calls, replies>>

\* variables of the follow-up scheduler alone
fvars == <<followup, scheduled, day, hourIx, proc, canceller, callsMade,
           delivered, cancelledOnce, sentAfterCancel, quietCancel,
           sentWindow, generationFailed>>

VARIABLES
    response,        \* the raw response last given to process_tags
    clean,           \* the text process_tags returned for it
    returned,        \* the state process_tags returned for it, or NoState
    lead_state,      \* Redis value {sender}_state
    objecoes,        \* leads.objecoes of the lead in the CRM
    crm,             \* leads.qualificacao, and whether a contact was made
    stateWrites,     \* set_lead_state calls made by process_tags
    tagCalls         \* process_tags calls made

tvars == <<response, clean, returned, lead_state, objecoes, crm, stateWrites,
           tagCalls>>

VARIABLE
    decision         \* the last call of should_use_audio and what it returned

mvars == <<decision>>

VARIABLES
    redis_state,     \* Redis values {key}_state, by key
    lookup           \* the last call of get_lead_state and what it returned

lvars == <<redis_state, lookup>>

VARIABLES
    appender,        \* each add_to_history caller: idle, or between rpush
                     \* and ltrim
    appends          \* rpush calls made on {sender}_history

hvars == <<appender, appends>>

VARIABLE
    plan             \* one run of the numbering and delivery of a follow-up

avars == <<plan>>

VARIABLE
    loop             \* the task of _scheduler_loop and the pass it is making

svars == <<loop>>

VARIABLES
    ai_messages,     \* Redis list {sender}_ai_messages
    inbound          \* the last webhook process_webhook got and its outcome

evars == <<ai_messages, inbound>>

\* variables of the components described last
yvars == <<svars, evars>>

\* the state of the components an action of another component leaves alone
xvars == <<tvars, mvars, lvars, hvars, avars, yvars>>

vars == <<dvars, fvars, bvars, xvars, history>>

\* ------------------------------------------------------------------------
\* Pure helpers
\* ------------------------------------------------------------------------
\* needle in hay (Python str.__contains__)
Contains(hay, needle) ==
    \E i \in 0..(Len(hay) - Len(needle)) :
        \A j \in 1..Len(needle) : hay[i + j] = needle[j]

\* " ".join(messages)
RECURSIVE Join(_)
Join(messages) ==
    IF Len(messages) = 0 THEN <<>>
    ELSE IF Len(messages) = 1 THEN messages[1]
    ELSE messages[1] \o <<" ">> \o Join(Tail(messages))

\* an ltrim that keeps the first entries of the list
LTrimOldest(list, keep) ==
    IF Len(list) <= keep THEN list ELSE SubSeq(list, 1, keep)

\* rpush followed by ltrim key -40 -1
LTrim(list, keep) ==
    IF Len(list) <= keep THEN list
    ELSE SubSeq(list, Len(list) - keep + 1, Len(list))

add_to_history(h, role, content) ==
    LTrim(Append(h, [role |-> role, content |-> content]), HistoryKeep)

\* ------------------------------------------------------------------------
\* Debounce engine
\* ------------------------------------------------------------------------
Pending(t) == tasks[t].pc # "done"

\* task.cancel() was called and the CancelledError is not yet delivered
CancelPending == \E t \in 1..Len(tasks) : Pending(t) /\ tasks[t].cancelReq

DoneTask ==
    [pc |-> "done", text |-> <<>>, sleepLeft |-> 0, full_text |-> <<>>,
     response |-> <<>>, cancelReq |-> FALSE]

\* `finally: if sender in _debounce_tasks: del _debounce_tasks[sender]`
FinallyMap(map, t) == NoTask

Finish(t) ==
    /\ tasks' = [tasks EXCEPT ![t] = DoneTask]
    /\ debounce_tasks' = FinallyMap(debounce_tasks, t)

\* process_webhook that buffers whether or not the chat is blocked
AddToBufferUnchecked(f) ==
    /\ inflight = NoSubmit
    /\ ~CancelPending
    /\ Len(submitted) < MaxSubmits
    /\ buffer' = Append(buffer, f)
    /\ bufferTTL' = 2 * redis_ttl_debounce
    /\ submitted' = Append(submitted,
                           [text |-> f,
                            gap |-> IF submitted = <<>> THEN 0 ELSE sincePush])
    /\ sincePush' = 0
    /\ inflight' = f
    /\ UNCHANGED <<tasks, debounce_tasks, calls, history, replies>>
    /\ UNCHANGED <<fvars, bvars, xvars>>

\* process_webhook up to `await redis_service.add_to_buffer(sender, text)`:
\* the chat is not blocked (is_chat_blocked) and the fragment is pushed
AddToBuffer(f) ==
    /\ inflight = NoSubmit
    /\ ~blocked
    /\ ~CancelPending
    /\ Len(submitted) < MaxSubmits
    /\ buffer' = Append(buffer, f)
    /\ bufferTTL' = 2 * redis_ttl_debounce
    /\ submitted' = Append(submitted,
                           [text |-> f,
                            gap |-> IF submitted = <<>> THEN 0 ELSE sincePush])
    /\ sincePush' = 0
    /\ inflight' = f
    /\ UNCHANGED <<tasks, debounce_tasks, calls, history, replies>>
    /\ UNCHANGED <<fvars, bvars, xvars>>

\* _process_with_debounce after the buffer write: cancel, create, register
ArmTimer ==
    /\ inflight # NoSubmit
    /\ ~CancelPending
    /\ LET cancelled ==
               IF debounce_tasks # NoTask /\ Pending(debounce_tasks)
               THEN [tasks EXCEPT ![debounce_tasks].cancelReq = TRUE]
               ELSE tasks
           new == [pc |-> "sleep", text |-> inflight,
                   sleepLeft |-> redis_ttl_debounce,
                   full_text |-> <<>>, response |-> <<>>,
                   cancelReq |-> FALSE]
       IN /\ tasks' = Append(cancelled, new)
          /\ debounce_tasks' = Len(tasks) + 1
    /\ inflight' = NoSubmit
    /\ UNCHANGED <<buffer, bufferTTL, sincePush, submitted, calls, history,
                   replies>>
    /\ UNCHANGED <<fvars, bvars, xvars>>

\* `except asyncio.CancelledError: pass` and the finally clause
TaskCancelled(t) ==
    /\ Pending(t)
    /\ tasks[t].cancelReq
    /\ Finish(t)
    /\ UNCHANGED <<buffer, bufferTTL, inflight, sincePush, submitted, calls,
                   history, replies>>
    /\ UNCHANGED <<fvars, bvars, xvars>>

\* asyncio.sleep(redis_ttl_debounce) returns; get_buffer_messages is called
TimerExpires(t) ==
    /\ tasks[t].pc = "sleep"
    /\ ~CancelPending
    /\ tasks[t].sleepLeft = 0
    /\ tasks' = [tasks EXCEPT ![t].pc = "lrange"]
    /\ UNCHANGED <<buffer, bufferTTL, debounce_tasks, inflight, sincePush,
                   submitted, calls, history, replies>>
    /\ UNCHANGED <<fvars, bvars, xvars>>

\* `if last_message and message.text in last_message`
Guard(messages, text) ==
    /\ Len(messages) > 0
    /\ Len(messages[Len(messages)]) > 0
    /\ Contains(messages[Len(messages)], text)

\* lrange returns; the guard is evaluated; clear_buffer is called
ReadBuffer(t) ==
    /\ tasks[t].pc = "lrange"
    /\ ~CancelPending
    /\ IF Guard(buffer, tasks[t].text)
       THEN /\ tasks' = [tasks EXCEPT ![t].pc = "delete",
                                      ![t].full_text = Join(buffer)]
            /\ UNCHANGED debounce_tasks
       ELSE Finish(t)
    /\ UNCHANGED <<buffer, bufferTTL, inflight, sincePush, submitted, calls,
                   history, replies>>
    /\ UNCHANGED <<fvars, bvars, xvars>>

\* the user entry written to the history before the handler is called
ClearBufferLogsFirst(t) ==
    /\ tasks[t].pc = "delete"
    /\ ~CancelPending
    /\ buffer' = <<>>
    /\ bufferTTL' = NoExpiry
    /\ calls' = Append(calls, tasks[t].full_text)
    /\ history' = add_to_history(history, "user", tasks[t].full_text)
    /\ tasks' = [tasks EXCEPT ![t].pc = "handler"]
    /\ UNCHANGED <<debounce_tasks, inflight, sincePush, submitted, replies>>
    /\ UNCHANGED <<fvars, bvars, xvars>>

\* delete returns; the consolidated message is built; on_message is called
ClearBuffer(t) ==
    /\ tasks[t].pc = "delete"
    /\ ~CancelPending
    /\ buffer' = <<>>
    /\ bufferTTL' = NoExpiry
    /\ calls' = Append(calls, tasks[t].full_text)
    /\ tasks' = [tasks EXCEPT ![t].pc = "handler"]
    /\ UNCHANGED <<debounce_tasks, inflight, sincePush, submitted, history,
                   replies>>
    /\ UNCHANGED <<fvars, bvars, xvars>>

\* on_message returns a response or None
HandlerReturns(t, r) ==
    /\ tasks[t].pc = "handler"
    /\ ~CancelPending
    /\ tasks' = [tasks EXCEPT ![t].pc = "history", ![t].response = r]
    /\ UNCHANGED <<buffer, bufferTTL, debounce_tasks, inflight, sincePush,
                   submitted, calls, history, replies>>
    /\ UNCHANGED <<fvars, bvars, xvars>>

\* a failed turn put back into the buffer, to be retried
HandlerRaisesRequeues(t) ==
    /\ tasks[t].pc = "handler"
    /\ ~CancelPending
    /\ Finish(t)
    /\ buffer' = <<tasks[t].full_text>> \o buffer
    /\ bufferTTL' = 2 * redis_ttl_debounce
    /\ UNCHANGED <<inflight, sincePush, submitted, calls, history, replies>>
    /\ UNCHANGED <<fvars, bvars, xvars>>

\* on_message raises: `except Exception`, then the finally clause
HandlerRaises(t) ==
    /\ tasks[t].pc = "handler"
    /\ ~CancelPending
    /\ Finish(t)
    /\ UNCHANGED <<buffer, bufferTTL, inflight, sincePush, submitted, calls,
                   history, replies>>
    /\ UNCHANGED <<fvars, bvars, xvars>>

\* add_to_history(sender, "user", full_text) returns; `if response:`
AddUserHistory(t) ==
    /\ tasks[t].pc = "history"
    /\ ~CancelPending
    /\ history' = add_to_history(history, "user", tasks[t].full_text)
    /\ IF tasks[t].response # <<>>
       THEN /\ tasks' = [tasks EXCEPT ![t].pc = "respond"]
            /\ UNCHANGED debounce_tasks
       ELSE Finish(t)
    /\ UNCHANGED <<buffer, bufferTTL, inflight, sincePush, submitted, calls,
                   replies>>
    /\ UNCHANGED <<fvars, bvars, xvars>>

\* _send_response: history entry of the assistant, then the delivery
SendResponse(t) ==
    /\ tasks[t].pc = "respond"
    /\ ~CancelPending
    /\ history' = add_to_history(history, "assistant", tasks[t].response)
    /\ replies' = replies + 1
    /\ Finish(t)
    /\ UNCHANGED <<buffer, bufferTTL, inflight, sincePush, submitted, calls>>
    /\ UNCHANGED <<fvars, bvars, xvars>>

\* ClockStep seconds pass.  A due timer fires before the clock moves on and a
\* store round trip is shorter than a clock step; the handler call and the
\* delivery of the response may take any time.
Tick ==
    /\ inflight = NoSubmit
    /\ ~CancelPending
    /\ \A t \in 1..Len(tasks) :
          /\ tasks[t].pc \notin {"lrange", "delete", "history"}
          /\ tasks[t].pc = "sleep" => tasks[t].sleepLeft > 0
    /\ tasks' = [t \in 1..Len(tasks) |->
                    IF tasks[t].pc = "sleep"
                    THEN [tasks[t] EXCEPT !.sleepLeft = @ - ClockStep]
                    ELSE tasks[t]]
    /\ sincePush' = IF sincePush + ClockStep > AgeCap THEN AgeCap
                    ELSE sincePush + ClockStep
    /\ IF bufferTTL = NoExpiry
       THEN UNCHANGED <<buffer, bufferTTL>>
       ELSE IF bufferTTL - ClockStep <= 0
            THEN buffer' = <<>> /\ bufferTTL' = NoExpiry
            ELSE buffer' = buffer /\ bufferTTL' = bufferTTL - ClockStep
    /\ UNCHANGED <<debounce_tasks, inflight, submitted, calls, history,
                   replies>>
    /\ UNCHANGED <<fvars, bvars, xvars>>

DebounceIdle ==
    /\ buffer = <<>>
    /\ bufferTTL = NoExpiry
    /\ tasks = <<>>
    /\ debounce_tasks = NoTask
    /\ inflight = NoSubmit
    /\ sincePush = 0
    /\ submitted = <<>>
    /\ calls = <<>>
    /\ replies = 0
    /\ blocked = FALSE
    /\ drops = 0

DebounceStep ==
    \/ \E f \in Fragments : AddToBuffer(f)
    \/ ArmTimer
    \/ \E t \in 1..Len(tasks) : TaskCancelled(t)
    \/ \E t \in 1..Len(tasks) : TimerExpires(t)
    \/ \E t \in 1..Len(tasks) : ReadBuffer(t)
    \/ \E t \in 1..Len(tasks) : ClearBuffer(t)
    \/ \E t \in 1..Len(tasks), r \in Responses \cup {<<>>} : HandlerReturns(t, r)
    \/ \E t \in 1..Len(tasks) : HandlerRaises(t)
    \/ \E t \in 1..Len(tasks) : AddUserHistory(t)
    \/ \E t \in 1..Len(tasks) : SendResponse(t)
    \/ Tick

\* --- block flag (human takeover) -----------------------------------------
\* Webhooks received in the specification of the block flag
MaxWebhooks == 2

\* POST /admin/block/{sender}: redis_service.block_chat
BlockChat ==
    /\ ~blocked
    /\ blocked' = TRUE
    /\ UNCHANGED <<drops, dvars, fvars, xvars, history>>

\* POST /admin/unblock/{sender} (redis_service.unblock_chat), or the key
\* {sender}_block expires (redis_ttl_block)
UnblockChat ==
    /\ blocked
    /\ blocked' = FALSE
    /\ UNCHANGED <<drops, dvars, fvars, xvars, history>>

\* process_webhook with the chat blocked: `return False` before any buffering
DropBlocked ==
    /\ inflight = NoSubmit
    /\ ~CancelPending
    /\ blocked
    /\ Len(submitted) + drops < MaxWebhooks
    /\ drops' = drops + 1
    /\ UNCHANGED <<blocked, dvars, fvars, xvars, history>>

\* ------------------------------------------------------------------------
\* Follow-up scheduler
\* ------------------------------------------------------------------------
\* Bounds of the model
MaxDay == 1
MaxCalls == 2

\* SCHEDULE_HOURS and MAX_FOLLOWUP_ATTEMPTS of followup_service.py
SCHEDULE_morning == 9
SCHEDULE_afternoon == 14
SCHEDULE_night == 19
MAX_FOLLOWUP_ATTEMPTS == 9
\* `if state.get("attempts", 0) >= 9` of trigger_followup
TRIGGER_MAX_ATTEMPTS == 9

\* The local hours the clock goes through each day: the three send windows
\* and one hour outside them.
ClockHours == <<9, 11, 14, 19>>
hour == ClockHours[hourIx]

NoRecord == <<>>
NoDay == -1
Yesterday == 0
FollowupMessage == <<"n">>

\* The records a lead can have when the model starts: none yet, or the
\* record of a lead that got eight follow-ups, the last one the night before.
InitAttempts == {8}

Record(a, c, d, lp) ==
    [attempts |-> a, cancelled |-> c, last_sent |-> d, last_period |-> lp]

Idle == [pc |-> "idle", state |-> NoRecord, period |-> "none", today |-> NoDay]

\* _get_current_period with a morning window of three hours
get_current_period_wide(h) ==
    IF SCHEDULE_morning <= h /\ h < SCHEDULE_morning + 3 THEN "morning"
    ELSE IF SCHEDULE_afternoon <= h /\ h < SCHEDULE_afternoon + 1 THEN "afternoon"
    ELSE IF SCHEDULE_night <= h /\ h < SCHEDULE_night + 1 THEN "night"
    ELSE "none"

\* FollowUpService._get_current_period
get_current_period(h) ==
    IF SCHEDULE_morning <= h /\ h < SCHEDULE_morning + 1 THEN "morning"
    ELSE IF SCHEDULE_afternoon <= h /\ h < SCHEDULE_afternoon + 1 THEN "afternoon"
    ELSE IF SCHEDULE_night <= h /\ h < SCHEDULE_night + 1 THEN "night"
    ELSE "none"

\* send_now of trigger_followup
trigger_period(h) ==
    IF h < 12 THEN "morning" ELSE IF h < 18 THEN "afternoon" ELSE "night"

\* json.dumps(state) stored under {sender}_followup; True once cancelled
StoresCancelled(rec) == rec # NoRecord /\ rec.cancelled

\* _save_followup_state; it also notes that a cancelled record was stored
Save(rec) ==
    /\ followup' = rec
    /\ cancelledOnce' = (cancelledOnce \/ StoresCancelled(rec))

\* --- scheduler loop ------------------------------------------------------
\* _process_pending_followups: keys("*_followup") returns, the period is
\* computed, the first (only) key is taken
SchedulerWake ==
    /\ proc["sch"].pc = "idle"
    /\ IF get_current_period(hour) = "none" \/ followup = NoRecord
       THEN UNCHANGED proc
       ELSE proc' = [proc EXCEPT !["sch"] =
                        [pc |-> "check", state |-> NoRecord,
                         period |-> get_current_period(hour), today |-> day]]
    /\ UNCHANGED <<sentWindow, generationFailed, followup, scheduled, day,
                   hourIx, canceller, callsMade, delivered, cancelledOnce,
                   sentAfterCancel,
                   quietCancel, history>>
    /\ UNCHANGED <<dvars, bvars, xvars>>

\* the exhaustion test with `>` in place of `>=`
ExhaustedAbove(state) == state.attempts > MAX_FOLLOWUP_ATTEMPTS

\* `if state["attempts"] >= MAX_FOLLOWUP_ATTEMPTS`
Exhausted(state) == state.attempts >= MAX_FOLLOWUP_ATTEMPTS

\* `if last_sent: ... last_sent_dt.date() == now.date() ... last_period == period`
AlreadySent(state, period, today) ==
    /\ state.last_sent # NoDay
    /\ state.last_sent = today
    /\ state.last_period = period

\* _check_and_send_followup: get_followup_state returns, the checks run
SchedulerCheck ==
    /\ proc["sch"].pc = "check"
    /\ LET me == proc["sch"] IN
       proc' = [proc EXCEPT !["sch"] =
          IF followup = NoRecord THEN Idle
          ELSE IF Exhausted(followup) THEN [me EXCEPT !.pc = "cancel_read"]
          ELSE IF followup.cancelled THEN Idle
          ELSE IF AlreadySent(followup, me.period, me.today) THEN Idle
          ELSE [me EXCEPT !.pc = "pre", !.state = followup]]
    /\ UNCHANGED <<sentWindow, generationFailed, followup, scheduled, day,
                   hourIx, canceller, callsMade, delivered, cancelledOnce,
                   sentAfterCancel,
                   quietCancel, history>>
    /\ UNCHANGED <<dvars, bvars, xvars>>

\* cancel_followup called by the scheduler: get_followup_state returns
SchedulerCancelRead ==
    /\ proc["sch"].pc = "cancel_read"
    /\ proc' = [proc EXCEPT !["sch"] =
                  IF followup = NoRecord THEN Idle
                  ELSE [@ EXCEPT !.pc = "cancel_write", !.state = followup]]
    /\ UNCHANGED <<sentWindow, generationFailed, followup, scheduled, day,
                   hourIx, canceller, callsMade, delivered, cancelledOnce,
                   sentAfterCancel,
                   quietCancel, history>>
    /\ UNCHANGED <<dvars, bvars, xvars>>

\* a cancel that also resets the attempt counter
CancelledCopyResets(state) == [state EXCEPT !.cancelled = TRUE, !.attempts = 0]

\* cancel_followup: state["cancelled"] = True; _save_followup_state
CancelledCopy(state) == [state EXCEPT !.cancelled = TRUE]

SchedulerCancelWrite ==
    /\ proc["sch"].pc = "cancel_write"
    /\ Save(CancelledCopy(proc["sch"].state))
    /\ proc' = [proc EXCEPT !["sch"] = Idle]
    /\ UNCHANGED <<sentWindow, generationFailed, scheduled, day, hourIx,
                   canceller, callsMade,
                   delivered, sentAfterCancel, quietCancel, history>>
    /\ UNCHANGED <<dvars, bvars, xvars>>

\* --- manual trigger (POST /admin/followup/{sender}/trigger) --------------
\* trigger_followup: get_followup_state returns; 404/400 or send_now queued
TriggerRequest ==
    /\ proc["trg"].pc = "idle"
    /\ callsMade < MaxCalls
    /\ callsMade' = callsMade + 1
    /\ IF \/ followup = NoRecord
          \/ followup.cancelled
          \/ followup.attempts >= TRIGGER_MAX_ATTEMPTS
       THEN UNCHANGED proc
       ELSE proc' = [proc EXCEPT !["trg"] =
                        [pc |-> "pre", state |-> followup,
                         period |-> trigger_period(hour), today |-> day]]
    /\ UNCHANGED <<sentWindow, generationFailed, followup, scheduled, day,
                   hourIx, canceller,
                   delivered, cancelledOnce, sentAfterCancel, quietCancel,
                   history>>
    /\ UNCHANGED <<dvars, bvars, xvars>>

\* --- _send_followup_message, run by the scheduler and by the trigger ----
\* `if not current_state or current_state.get("cancelled", False): return`
CancelCheckpoint(current) == current = NoRecord \/ current.cancelled

\* first checkpoint: get_followup_state returns, the prompt is built
PreCheck(p) ==
    /\ proc[p].pc = "pre"
    /\ proc' = [proc EXCEPT ![p] =
                  IF CancelCheckpoint(followup) THEN Idle
                  ELSE [@ EXCEPT !.pc = "generate"]]
    /\ UNCHANGED <<sentWindow, generationFailed, followup, scheduled, day,
                   hourIx, canceller, callsMade, delivered, cancelledOnce,
                   sentAfterCancel,
                   quietCancel, history>>
    /\ UNCHANGED <<dvars, bvars, xvars>>

\* generate_completion returns a message
Generated(p) ==
    /\ proc[p].pc = "generate"
    /\ proc' = [proc EXCEPT ![p].pc = "final"]
    /\ UNCHANGED <<sentWindow, generationFailed, followup, scheduled, day,
                   hourIx, canceller, callsMade, delivered, cancelledOnce,
                   sentAfterCancel,
                   quietCancel, history>>
    /\ UNCHANGED <<dvars, bvars, xvars>>

\* a failed generation that is counted as an attempt
GenerationFailsCounts(p) ==
    /\ proc[p].pc = "generate"
    /\ Save([proc[p].state EXCEPT !.attempts = @ + 1])
    /\ proc' = [proc EXCEPT ![p] = Idle]
    /\ UNCHANGED <<sentWindow, scheduled, day, hourIx, canceller, callsMade,
                   delivered, sentAfterCancel, quietCancel, history>>
    /\ generationFailed' = TRUE
    /\ UNCHANGED <<dvars, bvars, xvars>>

\* generate_completion returns nothing: `if not message: return`
GenerationFails(p) ==
    /\ proc[p].pc = "generate"
    /\ proc' = [proc EXCEPT ![p] = Idle]
    /\ UNCHANGED <<sentWindow, followup, scheduled, day, hourIx, canceller,
                   callsMade, delivered, cancelledOnce, sentAfterCancel,
                   quietCancel, history>>
    /\ generationFailed' = TRUE
    /\ UNCHANGED <<dvars, bvars, xvars>>

\* the send path without its second read of the record
FinalCheckSkipped(p) ==
    /\ proc[p].pc = "final"
    /\ proc' = [proc EXCEPT ![p].pc = "deliver"]
    /\ UNCHANGED <<sentWindow, generationFailed, followup, scheduled, day,
                   hourIx, canceller, callsMade,
                   delivered, cancelledOnce, sentAfterCancel, quietCancel,
                   history>>
    /\ UNCHANGED <<dvars, bvars, xvars>>

\* final checkpoint: get_followup_state returns, the gateway is called
FinalCheck(p) ==
    /\ proc[p].pc = "final"
    /\ proc' = [proc EXCEPT ![p] =
                  IF CancelCheckpoint(followup) THEN Idle
                  ELSE [@ EXCEPT !.pc = "deliver"]]
    /\ UNCHANGED <<sentWindow, generationFailed, followup, scheduled, day,
                   hourIx, canceller, callsMade, delivered, cancelledOnce,
                   sentAfterCancel,
                   quietCancel, history>>
    /\ UNCHANGED <<dvars, bvars, xvars>>

\* send_long_message / send_audio_with_presence returns; its result (the
\* gateway accepted the message or not) is not looked at
Deliver(p, ok) ==
    /\ proc[p].pc = "deliver"
    /\ proc' = [proc EXCEPT ![p].pc = "save"]
    /\ delivered' = IF ok THEN delivered + 1 ELSE delivered
    /\ sentAfterCancel' = IF ok /\ cancelledOnce /\ sentAfterCancel < 2
                          THEN sentAfterCancel + 1 ELSE sentAfterCancel
    /\ UNCHANGED <<generationFailed, followup, scheduled, day, hourIx,
                   canceller, callsMade, cancelledOnce, quietCancel, history>>
    /\ sentWindow' = IF ok /\ p = "sch"
                     THEN <<proc[p].today, proc[p].period>>
                     ELSE sentWindow
    /\ UNCHANGED <<dvars, bvars, xvars>>

\* `attempts = state["attempts"] + 1` and the fields set before the save
SentCopy(state, period, today) ==
    [state EXCEPT !.attempts = state.attempts + 1,
                  !.last_sent = today,
                  !.last_period = period]

\* `state[...] = ...; await self._save_followup_state(sender, state)`
SaveSent(p) ==
    /\ proc[p].pc = "save"
    /\ Save(SentCopy(proc[p].state, proc[p].period, day))
    /\ proc' = [proc EXCEPT ![p].pc = "history"]
    /\ UNCHANGED <<sentWindow, generationFailed, scheduled, day, hourIx,
                   canceller, callsMade,
                   delivered, sentAfterCancel, quietCancel, history>>
    /\ UNCHANGED <<dvars, bvars, xvars>>

\* `await redis_service.add_to_history(sender, "assistant", message)`
AddAssistantHistory(p) ==
    /\ proc[p].pc = "history"
    /\ history' = add_to_history(history, "assistant", FollowupMessage)
    /\ proc' = [proc EXCEPT ![p] = Idle]
    /\ UNCHANGED <<sentWindow, generationFailed, followup, scheduled, day,
                   hourIx, canceller, callsMade, delivered, cancelledOnce,
                   sentAfterCancel,
                   quietCancel>>
    /\ UNCHANGED <<dvars, bvars, xvars>>

\* --- schedule and cancel --------------------------------------------------
\* schedule_followup, at the end of process_new_lead
ScheduleFollowup ==
    /\ ~scheduled
    /\ scheduled' = TRUE
    /\ Save(Record(0, FALSE, NoDay, "none"))
    /\ UNCHANGED <<sentWindow, generationFailed, day, hourIx, proc,
                   canceller, callsMade, delivered,
                   sentAfterCancel, quietCancel, history>>
    /\ UNCHANGED <<dvars, bvars, xvars>>

\* the scheduler is inside _send_followup_message
SchedulerSending ==
    proc["sch"].pc \in {"pre", "generate", "final", "deliver", "save", "history"}

\* cancel_followup called by handle_message or admin_cancel_followup:
\* get_followup_state returns
CancelRead ==
    /\ canceller.pc = "idle"
    /\ callsMade < MaxCalls
    /\ callsMade' = callsMade + 1
    /\ canceller' = IF followup = NoRecord THEN canceller
                    ELSE [pc |-> "write", state |-> followup]
    /\ UNCHANGED <<sentWindow, generationFailed, followup, scheduled, day,
                   hourIx, proc,
                   delivered, cancelledOnce, sentAfterCancel, quietCancel,
                   history>>
    /\ UNCHANGED <<dvars, bvars, xvars>>

\* cancel_followup: state["cancelled"] = True; _save_followup_state
CancelWrite ==
    /\ canceller.pc = "write"
    /\ Save(CancelledCopy(canceller.state))
    /\ canceller' = [pc |-> "idle", state |-> NoRecord]
    /\ quietCancel' = (quietCancel \/ ~SchedulerSending)
    /\ UNCHANGED <<sentWindow, generationFailed, scheduled, day, hourIx,
                   proc, callsMade, delivered,
                   sentAfterCancel, history>>
    /\ UNCHANGED <<dvars, bvars, xvars>>

\* --- the clock --------------------------------------------------------------
\* The local hour moves on.  A pass of the scheduler, a triggered send and a
\* cancel call each end within the hour in which they started.
ClockAdvance ==
    /\ \A p \in DOMAIN proc : proc[p].pc = "idle"
    /\ canceller.pc = "idle"
    /\ IF hourIx < Len(ClockHours)
       THEN hourIx' = hourIx + 1 /\ day' = day
       ELSE day < MaxDay /\ hourIx' = 1 /\ day' = day + 1
    /\ UNCHANGED <<sentWindow, generationFailed, followup, scheduled, proc,
                   canceller, callsMade,
                   delivered, cancelledOnce, sentAfterCancel, quietCancel,
                   history>>
    /\ UNCHANGED <<dvars, bvars, xvars>>

FollowupIdle ==
    /\ followup = NoRecord
    /\ scheduled = FALSE
    /\ day = 1
    /\ hourIx = 1
    /\ proc = [p \in {"sch", "trg"} |-> Idle]
    /\ canceller = [pc |-> "idle", state |-> NoRecord]
    /\ callsMade = 0
    /\ delivered = 0
    /\ cancelledOnce = FALSE
    /\ sentAfterCancel = 0
    /\ quietCancel = FALSE
    /\ sentWindow = <<NoDay, "none">>
    /\ generationFailed = FALSE

\* A lead in the middle of its cadence, every earlier follow-up delivered
FollowupRunning(a) ==
    /\ followup = Record(a, FALSE, Yesterday, "night")
    /\ scheduled = TRUE
    /\ day = 1
    /\ hourIx = 1
    /\ proc = [p \in {"sch", "trg"} |-> Idle]
    /\ canceller = [pc |-> "idle", state |-> NoRecord]
    /\ callsMade = 0
    /\ delivered = a
    /\ cancelledOnce = FALSE
    /\ sentAfterCancel = 0
    /\ quietCancel = FALSE
    /\ sentWindow = <<NoDay, "none">>
    /\ generationFailed = FALSE

SchedulerStep ==
    \/ SchedulerWake
    \/ SchedulerCheck
    \/ SchedulerCancelRead
    \/ SchedulerCancelWrite
    \/ PreCheck("sch")
    \/ Generated("sch")
    \/ GenerationFails("sch")
    \/ FinalCheck("sch")
    \/ \E ok \in BOOLEAN : Deliver("sch", ok)
    \/ SaveSent("sch")
    \/ AddAssistantHistory("sch")

TriggerStep ==
    \/ TriggerRequest
    \/ PreCheck("trg")
    \/ Generated("trg")
    \/ GenerationFails("trg")
    \/ FinalCheck("trg")
    \/ \E ok \in BOOLEAN : Deliver("trg", ok)
    \/ SaveSent("trg")
    \/ AddAssistantHistory("trg")

\* ------------------------------------------------------------------------
\* Tag processor (services/tag_processor.py)
\* ------------------------------------------------------------------------
\* A response is a sequence of tokens: the characters "[", "]" and " ", and
\* words, which contain none of these characters.

\* Bounds of the model
MaxSegs == 3
MaxTagCalls == 2

\* a key the dict does not have
Absent == "absent"
\* `None` returned in place of a state
NoState == <<>>

\* TAG_MAPPING, in the order of the dict
TAG_MAPPING == <<
    [tag |-> <<"[", "QUALIFICADO", "]">>,
     updates |-> [qualificacao |-> "quente", etapa_spin |-> "completo"]],
    [tag |-> <<"[", "NAO_QUALIFICADO", "]">>,
     updates |-> [qualificacao |-> "frio", etapa_spin |-> "completo"]],
    [tag |-> <<"[", "FOLLOW_UP_24H", "]">>,
     updates |-> [follow_up |-> "True"]],
    [tag |-> <<"[", "TRANSFERIR_VENDEDOR", "]">>,
     updates |-> [transferir |-> "True", qualificacao |-> "quente"]],
    [tag |-> <<"[", "ENVIAR_AUDIO", "]">>,
     updates |-> [audio |-> "True"]] >>

\* ETAPA_KEYWORDS, in the order of the dict
ETAPA_KEYWORDS == <<
    [etapa |-> "situacao",
     keywords |-> {"o que vocês fazem", "me conta", "qual é o",
                   "como funciona"}],
    [etapa |-> "problema",
     keywords |-> {"dor de cabeça", "dificuldade", "problema", "gargalo",
                   "incomoda"}],
    [etapa |-> "implicacao",
     keywords |-> {"continuar assim", "impacto", "perder", "consequência"}],
    [etapa |-> "necessidade",
     keywords |-> {"se existisse", "ideal", "conectar", "vendedor",
                   "solução"}] >>

\* str.lower() of a token
LowerToken(tok) ==
    CASE tok = "QUALIFICADO" -> "qualificado"
      [] tok = "NAO_QUALIFICADO" -> "nao_qualificado"
      [] tok = "FOLLOW_UP_24H" -> "follow_up_24h"
      [] tok = "TRANSFERIR_VENDEDOR" -> "transferir_vendedor"
      [] tok = "ENVIAR_AUDIO" -> "enviar_audio"
      [] tok = "OBJECAO:" -> "objecao:"
      [] tok = "Preço" -> "preço"
      [] tok = "PREÇO" -> "preço"
      [] tok = "Prazo" -> "prazo"
      [] tok = "PROBLEMA" -> "problema"
      [] tok = "Me conta" -> "me conta"
      [] OTHER -> tok

\* str.lower()
Lower(text) == [i \in 1..Len(text) |-> LowerToken(text[i])]

\* `kw in word` for a lowercased word and a keyword
WordContains(word, kw) ==
    \/ word = kw
    \/ word = "transferir_vendedor" /\ kw = "vendedor"

\* `kw in response_lower`
HasKeyword(text, kw) == \E i \in 1..Len(text) : WordContains(text[i], kw)

\* str.replace(tag, ""): every occurrence found scanning left to right
RECURSIVE Replace(_, _)
Replace(text, tag) ==
    IF Len(text) < Len(tag) THEN text
    ELSE IF SubSeq(text, 1, Len(tag)) = tag
         THEN Replace(SubSeq(text, Len(tag) + 1, Len(text)), tag)
         ELSE <<Head(text)>> \o Replace(Tail(text), tag)

RECURSIVE LStrip(_)
LStrip(text) ==
    IF text # <<>> /\ Head(text) = " " THEN LStrip(Tail(text)) ELSE text

RECURSIVE RStrip(_)
RStrip(text) ==
    IF text # <<>> /\ text[Len(text)] = " "
    THEN RStrip(SubSeq(text, 1, Len(text) - 1)) ELSE text

\* str.strip()
Strip(text) == RStrip(LStrip(text))

\* new_state.update(updates)
DictUpdate(state, updates) ==
    [k \in DOMAIN state |->
        IF k \in DOMAIN updates THEN updates[k] ELSE state[k]]

\* `for tag, updates in TAG_MAPPING.items(): if tag in response: ...`
RECURSIVE ApplyTags(_, _)
ApplyTags(i, acc) ==
    IF i > Len(TAG_MAPPING) THEN acc
    ELSE IF Contains(acc.response, TAG_MAPPING[i].tag)
         THEN ApplyTags(i + 1,
                 [response |-> Strip(Replace(acc.response, TAG_MAPPING[i].tag)),
                  new_state |-> DictUpdate(acc.new_state,
                                           TAG_MAPPING[i].updates),
                  tags_found |-> Append(acc.tags_found, TAG_MAPPING[i].tag)])
         ELSE ApplyTags(i + 1, acc)

\* the tokens [^\]]+ can run over from the start of text
RECURSIVE BodyRun(_)
BodyRun(text) ==
    IF text = <<>> \/ Head(text) = "]" THEN <<>>
    ELSE <<Head(text)>> \o BodyRun(Tail(text))

\* objecao_pattern matches at the start of text: "[", OBJECAO: in any case,
\* at least one character other than "]", and a closing "]"
ObjecaoMatches(text) ==
    /\ Len(text) >= 4
    /\ text[1] = "["
    /\ LowerToken(text[2]) = "objecao:"
    /\ LET run == BodyRun(SubSeq(text, 3, Len(text))) IN
       /\ run # <<>>
       /\ Len(run) + 2 < Len(text)

\* the group captured by `\s*([^\]]+)`: the run without its leading
\* whitespace, or its last character when it is all whitespace
ObjecaoGroup(text) ==
    LET run == BodyRun(SubSeq(text, 3, Len(text))) IN
    IF LStrip(run) = <<>> THEN <<run[Len(run)]>> ELSE LStrip(run)

\* what follows the match
AfterObjecao(text) ==
    LET run == BodyRun(SubSeq(text, 3, Len(text))) IN
    SubSeq(text, Len(run) + 4, Len(text))

\* re.findall(objecao_pattern, response, re.IGNORECASE)
RECURSIVE FindAll(_)
FindAll(text) ==
    IF text = <<>> THEN <<>>
    ELSE IF ObjecaoMatches(text)
         THEN <<ObjecaoGroup(text)>> \o FindAll(AfterObjecao(text))
         ELSE FindAll(Tail(text))

\* re.sub(objecao_pattern, '', response, flags=re.IGNORECASE)
RECURSIVE Sub(_)
Sub(text) ==
    IF text = <<>> THEN <<>>
    ELSE IF ObjecaoMatches(text) THEN Sub(AfterObjecao(text))
         ELSE <<Head(text)>> \o Sub(Tail(text))

\* an add_objecao that compares the texts as they are
add_objecao_exact(objecoes_atuais, objecao) ==
    IF \E i \in 1..Len(objecoes_atuais) : objecoes_atuais[i] = objecao
    THEN objecoes_atuais
    ELSE Append(objecoes_atuais, Strip(objecao))

\* SupabaseService.add_objecao, the lead being in the CRM
add_objecao(objecoes_atuais, objecao) ==
    IF \E i \in 1..Len(objecoes_atuais) :
           Strip(Lower(objecoes_atuais[i])) = Strip(Lower(objecao))
    THEN objecoes_atuais
    ELSE Append(objecoes_atuais, Strip(objecao))

\* `for objecao in objecoes_encontradas: ... add_objecao(sender, objecao_limpa)`
RECURSIVE AddObjecoes(_, _)
AddObjecoes(objecoes_atuais, encontradas) ==
    IF encontradas = <<>> THEN objecoes_atuais
    ELSE LET objecao_limpa == Strip(Head(encontradas)) IN
         AddObjecoes(IF objecao_limpa # <<>>
                     THEN add_objecao(objecoes_atuais, objecao_limpa)
                     ELSE objecoes_atuais,
                     Tail(encontradas))

\* `if not tags_found:`
InferStage(tags_found) == tags_found = <<>>

\* `for etapa, keywords in ETAPA_KEYWORDS.items(): if any(...): ...; break`
RECURSIVE FirstStage(_, _)
FirstStage(i, response_lower) ==
    IF i > Len(ETAPA_KEYWORDS) THEN Absent
    ELSE IF \E kw \in ETAPA_KEYWORDS[i].keywords :
                HasKeyword(response_lower, kw)
         THEN ETAPA_KEYWORDS[i].etapa
         ELSE FirstStage(i + 1, response_lower)

\* process_tags up to the comparison of the two states
Processed(raw, current_state) ==
    LET tagged == ApplyTags(1, [response |-> raw, new_state |-> current_state,
                                tags_found |-> <<>>])
        encontradas == FindAll(tagged.response)
        text == IF encontradas # <<>> THEN Strip(Sub(tagged.response))
                ELSE tagged.response
        etapa == IF InferStage(tagged.tags_found)
                 THEN FirstStage(1, Lower(text)) ELSE Absent
    IN  [response |-> text,
         new_state |-> IF etapa # Absent
                       THEN [tagged.new_state EXCEPT !.etapa_spin = etapa]
                       ELSE tagged.new_state,
         tags_found |-> tagged.tags_found,
         encontradas |-> encontradas]

\* the texts a response is made of
Tag(word) == <<"[", word, "]">>

TagSnippets ==
    {Tag("QUALIFICADO"), Tag("NAO_QUALIFICADO"), Tag("FOLLOW_UP_24H"),
     Tag("TRANSFERIR_VENDEDOR"), Tag("ENVIAR_AUDIO"),
     <<"[">>, <<"QUALIFICADO", "]">>, <<"oi">>}

ObjecaoSnippets ==
    {<<"[", "OBJECAO:", " ", "Preço", "]">>,
     <<"[", "objecao:", "PREÇO", " ", "]">>,
     <<"[", "OBJECAO:", "Prazo", "]">>,
     <<"[", "OBJECAO:", " ", "]">>,
     Tag("QUALIFICADO"), <<"[">>, <<"QUALIFICADO", "]">>, <<"oi">>}

KeywordSnippets ==
    {<<"Me conta">>, <<"problema">>, <<"impacto">>, <<"ideal">>, <<"oi">>,
     <<" ">>, Tag("ENVIAR_AUDIO"), Tag("QUALIFICADO")}

Families == {TagSnippets, ObjecaoSnippets, KeywordSnippets}

RECURSIVE Flatten(_)
Flatten(segs) ==
    IF segs = <<>> THEN <<>> ELSE Head(segs) \o Flatten(Tail(segs))

\* every response of at most MaxSegs snippets of one family
Texts ==
    {Flatten(segs) :
        segs \in UNION {[1..k -> F] : k \in 0..MaxSegs, F \in Families}}

\* the lead state a conversation can start from: no state yet, or the one
\* process_new_lead stores after the welcome message
EmptyState ==
    [qualificacao |-> Absent, etapa_spin |-> Absent, follow_up |-> Absent,
     transferir |-> Absent, audio |-> Absent]

WelcomeState == [EmptyState EXCEPT !.etapa_spin = "situacao"]

\* a process_tags that writes and returns the state whether or not it changed
ProcessTagsAlwaysWrites(raw) ==
    /\ tagCalls < MaxTagCalls
    /\ tagCalls' = tagCalls + 1
    /\ LET p == Processed(raw, lead_state) IN
       /\ response' = raw
       /\ objecoes' = AddObjecoes(objecoes, p.encontradas)
       /\ lead_state' = p.new_state
       /\ stateWrites' = stateWrites + 1
       /\ clean' = p.response
       /\ returned' = p.new_state
    /\ UNCHANGED <<crm, dvars, fvars, bvars, mvars, lvars, hvars, avars, yvars, history>>

\* process_tags(response, current_state, sender), current_state being the
\* stored state of the lead
ProcessTags(raw) ==
    /\ tagCalls < MaxTagCalls
    /\ tagCalls' = tagCalls + 1
    /\ LET p == Processed(raw, lead_state)
           changed == p.new_state # lead_state
           found(word) == \E i \in 1..Len(p.tags_found) :
                              p.tags_found[i] = Tag(word)
       IN
       /\ response' = raw
       /\ objecoes' = AddObjecoes(objecoes, p.encontradas)
       /\ lead_state' = IF changed THEN p.new_state ELSE lead_state
       /\ stateWrites' = IF changed THEN stateWrites + 1 ELSE stateWrites
       /\ crm' = [qualificacao |->
                     IF found("QUALIFICADO") THEN "quente"
                     ELSE IF found("NAO_QUALIFICADO") THEN "frio"
                     ELSE crm.qualificacao,
                  contato |-> crm.contato \/ found("TRANSFERIR_VENDEDOR")]
       /\ clean' = p.response
       /\ returned' = IF changed THEN p.new_state ELSE NoState
    /\ UNCHANGED <<dvars, fvars, bvars, mvars, lvars, hvars, avars, yvars, history>>

\* the agent answers a message of the lead
ProcessResponse ==
    /\ tagCalls = 0
    /\ \E raw \in Texts : ProcessTags(raw)

\* the same raw response is processed once more
ReprocessResponse ==
    /\ tagCalls > 0
    /\ ProcessTags(response)

TagIdle(state) ==
    /\ response = <<>>
    /\ clean = <<>>
    /\ returned = NoState
    /\ lead_state = state
    /\ objecoes = <<>>
    /\ crm = [qualificacao |-> Absent, contato |-> FALSE]
    /\ stateWrites = 0
    /\ tagCalls = 0

\* ------------------------------------------------------------------------
\* Media decision (utils/media_decision.py)
\* ------------------------------------------------------------------------
\* A message is a sequence of pieces of text, each of a known length and
\* holding at most one of the things the rules look for.

\* Bound of the model
MaxPieces == 3

NoDecision == <<>>

\* the pieces, with len() of each
Pieces ==
    {[text |-> "[ENVIAR_AUDIO]", len |-> 14],
     [text |-> "11 99999-9999", len |-> 13],
     [text |-> "entendo", len |-> 7],
     [text |-> "faz sentido", len |-> 11],
     [text |-> "o que", len |-> 5],
     [text |-> "?", len |-> 1],
     [text |-> "plain text of 49 characters", len |-> 49],
     [text |-> "plain text of 100 characters", len |-> 100]}

Messages == UNION {[1..k -> Pieces] : k \in 0..MaxPieces}

\* len(message)
RECURSIVE MessageLen(_)
MessageLen(message) ==
    IF message = <<>> THEN 0
    ELSE Head(message).len + MessageLen(Tail(message))

\* `word in message`, for the words and patterns the rules look for
MessageHas(message, words) ==
    \E i \in 1..Len(message) : message[i].text \in words

\* _has_technical_content: the phone pattern is the one the pieces can match
_has_technical_content(message) == MessageHas(message, {"11 99999-9999"})

\* _is_personal_message
_is_personal_message(message) == MessageHas(message, {"entendo"})

\* _has_empathy_indicators
_has_empathy_indicators(message) == MessageHas(message, {"faz sentido"})

\* _is_spin_question
_is_spin_question(message) ==
    MessageHas(message, {"?"}) /\ MessageHas(message, {"o que"})

Result(use_audio, reason) == [use_audio |-> use_audio, reason |-> reason]

\* a should_use_audio that looks at the first contact before the content
use_audio_eager(message, is_first_contact, is_follow_up, has_audio_tag) ==
    IF has_audio_tag \/ MessageHas(message, {"[ENVIAR_AUDIO]"})
    THEN Result(TRUE, "tag_audio")
    ELSE IF is_first_contact THEN Result(TRUE, "primeiro_contato")
    ELSE IF _has_technical_content(message)
    THEN Result(FALSE, "conteudo_tecnico")
    ELSE IF MessageLen(message) < 50 THEN Result(FALSE, "mensagem_curta")
    ELSE IF is_follow_up THEN Result(TRUE, "follow_up")
    ELSE IF MessageLen(message) > 200 /\ _is_personal_message(message)
    THEN Result(TRUE, "mensagem_longa_pessoal")
    ELSE IF _has_empathy_indicators(message)
    THEN Result(TRUE, "mensagem_empatica")
    ELSE IF _is_spin_question(message) THEN Result(FALSE, "pergunta_spin")
    ELSE Result(FALSE, "default")

\* should_use_audio
should_use_audio(message, is_first_contact, is_follow_up, has_audio_tag) ==
    IF has_audio_tag \/ MessageHas(message, {"[ENVIAR_AUDIO]"})
    THEN Result(TRUE, "tag_audio")
    ELSE IF _has_technical_content(message)
    THEN Result(FALSE, "conteudo_tecnico")
    ELSE IF MessageLen(message) < 50 THEN Result(FALSE, "mensagem_curta")
    ELSE IF is_first_contact THEN Result(TRUE, "primeiro_contato")
    ELSE IF is_follow_up THEN Result(TRUE, "follow_up")
    ELSE IF MessageLen(message) > 200 /\ _is_personal_message(message)
    THEN Result(TRUE, "mensagem_longa_pessoal")
    ELSE IF _has_empathy_indicators(message)
    THEN Result(TRUE, "mensagem_empatica")
    ELSE IF _is_spin_question(message) THEN Result(FALSE, "pergunta_spin")
    ELSE Result(FALSE, "default")

\* a caller asks how to send a message
DecideMedia ==
    /\ decision = NoDecision
    /\ \E message \in Messages, is_first_contact \in BOOLEAN,
          is_follow_up \in BOOLEAN, has_audio_tag \in BOOLEAN :
          decision' = [message |-> message,
                       is_first_contact |-> is_first_contact,
                       is_follow_up |-> is_follow_up,
                       has_audio_tag |-> has_audio_tag,
                       result |-> should_use_audio(message, is_first_contact,
                                                   is_follow_up, has_audio_tag)]
    /\ UNCHANGED <<dvars, fvars, bvars, tvars, lvars, hvars, avars, yvars, history>>

\* the answer is taken and the next message comes
MediaDone ==
    /\ decision # NoDecision
    /\ decision' = NoDecision
    /\ UNCHANGED <<dvars, fvars, bvars, tvars, lvars, hvars, avars, yvars, history>>

MediaIdle == decision = NoDecision

\* ------------------------------------------------------------------------
\* Lead-state lookup (RedisService.get_lead_state)
\* ------------------------------------------------------------------------
\* A sender is the sequence of the digits before "@s.whatsapp.net".

\* no value under the key
NoValue == <<>>
NoLookup == <<>>

\* 55 + area code + 8 digits, the same number with the extra 9, a 13-digit
\* number whose 5th digit is not 9, and a 12-digit number of another country
SenderDigits ==
    {<<5, 5, 1, 1, 8, 8, 8, 8, 7, 7, 7, 7>>,
     <<5, 5, 1, 1, 9, 8, 8, 8, 8, 7, 7, 7, 7>>,
     <<5, 5, 1, 1, 8, 8, 8, 8, 8, 7, 7, 7, 7>>,
     <<4, 4, 1, 1, 8, 8, 8, 8, 7, 7, 7, 7>>}

\* what a key can hold: no segmento, an empty one, a segmento
Segmentos == {Absent, "", "varejo"}

StoredStates(key) == {[key |-> key, segmento |-> s] : s \in Segmentos}

\* `state_dict.get("segmento")` is truthy
HasSegmento(state_dict) == state_dict.segmento \notin {Absent, ""}

\* client.get(key), json.loads
Get(store, key) == IF key \in DOMAIN store THEN store[key] ELSE NoValue

StartsWith55(digits) == Len(digits) >= 2 /\ digits[1] = 5 /\ digits[2] = 5

\* a get_lead_state that returns the primary record whenever there is one
get_lead_state_primary_only(store, digits) ==
    LET state_dict == Get(store, digits) IN
    IF state_dict # NoValue THEN state_dict
    ELSE LET alt_state_dict ==
                 IF Len(digits) = 12 /\ StartsWith55(digits)
                 THEN Get(store, SubSeq(digits, 1, 4) \o <<9>>
                                    \o SubSeq(digits, 5, Len(digits)))
                 ELSE NoValue
         IN IF alt_state_dict # NoValue /\ HasSegmento(alt_state_dict)
            THEN alt_state_dict ELSE state_dict

\* RedisService.get_lead_state
get_lead_state(store, digits) ==
    LET state_dict == Get(store, digits) IN
    IF state_dict # NoValue /\ HasSegmento(state_dict) THEN state_dict
    ELSE LET alt_state_dict ==
                 IF Len(digits) = 12 /\ StartsWith55(digits)
                 THEN Get(store, SubSeq(digits, 1, 4) \o <<9>>
                                    \o SubSeq(digits, 5, Len(digits)))
                 ELSE IF /\ Len(digits) = 13
                         /\ StartsWith55(digits)
                         /\ digits[5] = 9
                 THEN Get(store, SubSeq(digits, 1, 4)
                                    \o SubSeq(digits, 6, Len(digits)))
                 ELSE NoValue
         IN IF alt_state_dict # NoValue /\ HasSegmento(alt_state_dict)
            THEN alt_state_dict ELSE state_dict

\* a caller looks up the state of a sender
GetLeadState ==
    /\ lookup = NoLookup
    /\ \E digits \in SenderDigits :
          lookup' = [sender |-> digits,
                     result |-> get_lead_state(redis_state, digits)]
    /\ UNCHANGED <<redis_state, dvars, fvars, bvars, tvars, mvars, hvars, avars, yvars,
                   history>>

\* the caller goes on with what it got
LookupDone ==
    /\ lookup # NoLookup
    /\ lookup' = NoLookup
    /\ UNCHANGED <<redis_state, dvars, fvars, bvars, tvars, mvars, hvars, avars, yvars,
                   history>>

LookupIdle ==
    /\ redis_state = [key \in {} |-> NoValue]
    /\ lookup = NoLookup

\* ------------------------------------------------------------------------
\* Conversation history (RedisService.add_to_history)
\* ------------------------------------------------------------------------
\* Bound of the model: appends made to a history that already has its
\* first InitEntries entries
MaxAppends == 5
InitEntries == 38

\* the callers of add_to_history: debounce_handler, _send_response,
\* process_new_lead and _send_followup_message
Appenders == {"consolidator", "reply", "welcome", "followup"}

RoleOf(a) == IF a = "consolidator" THEN "user" ELSE "assistant"

\* `await self.client.rpush(key, message)`; the content is the number of
\* the message
Rpush(a) ==
    /\ appender[a] = "idle"
    /\ appends < InitEntries + MaxAppends
    /\ appends' = appends + 1
    /\ history' = Append(history, [role |-> RoleOf(a),
                                   content |-> appends + 1])
    /\ appender' = [appender EXCEPT ![a] = "ltrim"]
    /\ UNCHANGED <<dvars, fvars, bvars, tvars, mvars, lvars, avars, yvars>>

\* `await self.client.ltrim(key, -40, -1)`, then expire
Ltrim(a) ==
    /\ appender[a] = "ltrim"
    /\ history' = LTrim(history, HistoryKeep)
    /\ appender' = [appender EXCEPT ![a] = "idle"]
    /\ UNCHANGED <<appends, dvars, fvars, bvars, tvars, mvars, lvars,
                   avars, yvars>>

HistoryIdle ==
    /\ appender = [a \in Appenders |-> "idle"]
    /\ appends = 0

\* a conversation in progress: the welcome message, then the lead and the
\* agent in turn
HistoryRunning ==
    /\ appender = [a \in Appenders |-> "idle"]
    /\ appends = InitEntries
    /\ history = [i \in 1..InitEntries |->
                     [role |-> IF i % 2 = 1 THEN "assistant" ELSE "user",
                      content |-> i]]

\* ------------------------------------------------------------------------
\* Numbering and delivery of a follow-up (_send_followup_message)
\* ------------------------------------------------------------------------
NoPlan == <<>>
Periods == {"morning", "afternoon", "night"}

\* the attempts values of a record that enters the send path: the scheduler
\* and the manual trigger both turn away a record with attempts >= 9
StoredAttempts == 0..(MAX_FOLLOWUP_ATTEMPTS - 1)

\* `day = (attempts // 3) + 1`
day_of_floor(attempts) == (attempts \div 3) + 1

\* `day = ((attempts - 1) // 3) + 1`
day_of(attempts) == ((attempts - 1) \div 3) + 1

\* `use_audio = period == "afternoon" and attempts % 2 == 0`
use_audio(period, attempts) == period = "afternoon" /\ attempts % 2 = 0

\* `attempts = state["attempts"] + 1`, the day, the prompt built with them
PlanFollowup ==
    /\ plan = NoPlan
    /\ \E stored \in StoredAttempts, period \in Periods :
          LET attempts == stored + 1 IN
          plan' = [pc |-> IF use_audio(period, attempts) THEN "tts" ELSE "send",
                   stored |-> stored, period |-> period,
                   attempt |-> attempts, day |-> day_of(attempts),
                   audio_bytes |-> FALSE, medium |-> "none",
                   accepted |-> FALSE, saved |-> 0]
    /\ UNCHANGED <<dvars, fvars, bvars, tvars, mvars, lvars, hvars, yvars, history>>

\* `audio_bytes = await tts_service.text_to_audio(message)`: bytes, or None
Synthesize(ok) ==
    /\ plan # NoPlan
    /\ plan.pc = "tts"
    /\ plan' = [plan EXCEPT !.pc = "send", !.audio_bytes = ok]
    /\ UNCHANGED <<dvars, fvars, bvars, tvars, mvars, lvars, hvars, yvars, history>>

\* send_audio_with_presence when there are audio bytes, send_long_message
\* otherwise; the gateway accepts the message or not
SendFollowup(ok) ==
    /\ plan # NoPlan
    /\ plan.pc = "send"
    /\ plan' = [plan EXCEPT !.pc = "save",
                            !.medium = IF use_audio(plan.period, plan.attempt)
                                          /\ plan.audio_bytes
                                       THEN "audio" ELSE "text",
                            !.accepted = ok]
    /\ UNCHANGED <<dvars, fvars, bvars, tvars, mvars, lvars, hvars, yvars, history>>

\* `state["attempts"] = attempts` and the save
SavePlan ==
    /\ plan # NoPlan
    /\ plan.pc = "save"
    /\ plan' = [plan EXCEPT !.pc = "done", !.saved = plan.attempt]
    /\ UNCHANGED <<dvars, fvars, bvars, tvars, mvars, lvars, hvars, yvars, history>>

\* the send has returned; the next one comes
PlanDone ==
    /\ plan # NoPlan
    /\ plan.pc = "done"
    /\ plan' = NoPlan
    /\ UNCHANGED <<dvars, fvars, bvars, tvars, mvars, lvars, hvars, yvars, history>>

PlanIdle == plan = NoPlan

\* ------------------------------------------------------------------------
\* The scheduler loop as an error boundary (_scheduler_loop)
\* ------------------------------------------------------------------------
Leads == {"a", "b", "c"}

\* what keys("*_followup") can return: the leads with a record, in any order
KeyLists ==
    {<<>>} \cup {<<x>> : x \in Leads}
           \cup {ks \in [1..2 -> Leads] : ks[1] # ks[2]}
           \cup {ks \in [1..3 -> Leads] : Cardinality({ks[i] : i \in 1..3}) = 3}

\* the pass is over: back in _scheduler_loop, `await asyncio.sleep(300)`
Sleeping(l) == [l EXCEPT !.pc = "sleep", !.i = 0]

\* the for loop goes on to the next key, or the pass returns
NextKey(l) ==
    IF l.i < Len(l.keys) THEN [l EXCEPT !.i = l.i + 1] ELSE Sleeping(l)

\* an exception of one lead that leaves the for loop
AbortPass(l) == Sleeping(l)

\* `except Exception as e: logger.error(...)` inside the for loop
CatchInPass(l) == NextKey(l)

\* asyncio.sleep(300) returns, `while self._running`, the pass starts with
\* `await redis_service.client.keys("*_followup")`
LoopWake ==
    /\ loop.pc = "sleep"
    /\ loop' = [loop EXCEPT !.pc = "keys", !.keys = <<>>, !.done = {},
                            !.raised = {}]
    /\ UNCHANGED <<dvars, fvars, bvars, tvars, mvars, lvars, hvars, avars,
                   evars, history>>

\* keys() returns; outside the send windows the pass returns at once
KeysReturn ==
    /\ loop.pc = "keys"
    /\ \E ks \in KeyLists, in_window \in BOOLEAN :
          loop' = IF in_window /\ ks # <<>>
                  THEN [loop EXCEPT !.pc = "lead", !.keys = ks, !.i = 1]
                  ELSE Sleeping(loop)
    /\ UNCHANGED <<dvars, fvars, bvars, tvars, mvars, lvars, hvars, avars,
                   evars, history>>

\* keys() raises: `except Exception` of _scheduler_loop, then the sleep
KeysRaise ==
    /\ loop.pc = "keys"
    /\ loop' = Sleeping(loop)
    /\ UNCHANGED <<dvars, fvars, bvars, tvars, mvars, lvars, hvars, avars,
                   evars, history>>

\* _check_and_send_followup returns for the current key
LeadReturns ==
    /\ loop.pc = "lead"
    /\ loop' = NextKey([loop EXCEPT !.done = @ \cup {loop.keys[loop.i]}])
    /\ UNCHANGED <<dvars, fvars, bvars, tvars, mvars, lvars, hvars, avars,
                   evars, history>>

\* _check_and_send_followup raises for the current key
LeadRaises ==
    /\ loop.pc = "lead"
    /\ loop' = CatchInPass([loop EXCEPT !.raised = @ \cup {loop.keys[loop.i]}])
    /\ UNCHANGED <<dvars, fvars, bvars, tvars, mvars, lvars, hvars, avars,
                   evars, history>>

\* stop(): _running = False and the task is cancelled at its await
StopScheduler ==
    /\ loop.pc # "stopped"
    /\ loop' = [loop EXCEPT !.pc = "stopped"]
    /\ UNCHANGED <<dvars, fvars, bvars, tvars, mvars, lvars, hvars, avars,
                   evars, history>>

\* start(): the task is created and makes its first pass at once
LoopStarted ==
    loop = [pc |-> "sleep", keys |-> <<>>, i |-> 0, done |-> {}, raised |-> {}]

\* a step of the scheduler task
LoopStep ==
    \/ LoopWake
    \/ KeysReturn
    \/ KeysRaise
    \/ LeadReturns
    \/ LeadRaises

\* ------------------------------------------------------------------------
\* Echo filter of the webhook (process_webhook, is_ai_message)
\* ------------------------------------------------------------------------
\* Bound of the model: messages of the agent kept in the registry
MaxAiMessages == 2
\* add_ai_message keeps the last 50 entries (ltrim key -50 -1)
AiMessagesKeep == 50

NoInbound == <<>>
\* a webhook without text (get_text_content returns None)
NoText == <<>>

\* texts the agent sent, one character per element
BotTexts == { <<"s", "i", "m">>, <<"s", "i", "m", "!">>, <<"o", "l", "a">> }

\* texts of webhooks: a text the agent sent, the same with a newline at the
\* end, a text inside one the agent sent, another text, and no text
InboundTexts ==
    { <<"s", "i", "m">>, <<"s", "i", "m", "\n">>, <<"s", "i">>,
      <<"o", "i">>, NoText }

\* message.replace("\n", " ")
ReplaceNewlines(message) ==
    [i \in 1..Len(message) |-> IF message[i] = "\n" THEN " " ELSE message[i]]

\* RedisService.is_ai_message: `any(message_clean in msg for msg in messages)`
is_ai_message(messages, message) ==
    LET message_clean == Strip(ReplaceNewlines(message)) IN
    \E i \in 1..Len(messages) : Contains(messages[i], message_clean)

\* process_webhook, steps 1 to 6: what becomes of the webhook
process_webhook(text_content, is_from_me, is_blocked) ==
    IF is_from_me THEN "from_me"
    ELSE IF text_content # NoText /\ is_ai_message(ai_messages, text_content)
         THEN "ai_message"
    ELSE IF is_blocked THEN "blocked"
    ELSE IF text_content = NoText THEN "no_content"
    ELSE "buffered"

\* add_ai_message: a message of the agent goes out and is registered
AddAiMessage ==
    /\ inbound = NoInbound
    /\ Len(ai_messages) < MaxAiMessages
    /\ \E m \in BotTexts :
          ai_messages' = LTrim(Append(ai_messages, m), AiMessagesKeep)
    /\ UNCHANGED inbound
    /\ UNCHANGED <<dvars, fvars, bvars, tvars, mvars, lvars, hvars, avars,
                   svars, history>>

\* a webhook of the sender is processed
ProcessWebhook ==
    /\ inbound = NoInbound
    /\ \E text_content \in InboundTexts, is_from_me \in BOOLEAN,
          is_blocked \in BOOLEAN :
          inbound' = [text |-> text_content, is_from_me |-> is_from_me,
                      is_blocked |-> is_blocked,
                      result |-> process_webhook(text_content, is_from_me,
                                                 is_blocked)]
    /\ UNCHANGED ai_messages
    /\ UNCHANGED <<dvars, fvars, bvars, tvars, mvars, lvars, hvars, avars,
                   svars, history>>

\* process_webhook has returned; the next webhook comes
WebhookDone ==
    /\ inbound # NoInbound
    /\ inbound' = NoInbound
    /\ UNCHANGED ai_messages
    /\ UNCHANGED <<dvars, fvars, bvars, tvars, mvars, lvars, hvars, avars,
                   svars, history>>

EchoIdle == ai_messages = <<>> /\ inbound = NoInbound

\* the components described last, at rest
RestIdle == PlanIdle /\ LoopStarted /\ EchoIdle

\* the other components at rest
OthersIdle ==
    /\ TagIdle(EmptyState) /\ MediaIdle /\ LookupIdle /\ HistoryIdle
    /\ RestIdle

\* ------------------------------------------------------------------------
\* Specifications
\* ------------------------------------------------------------------------
InitDebounce ==
    DebounceIdle /\ history = <<>> /\ FollowupIdle /\ OthersIdle

NextDebounce == DebounceStep

SpecDebounce == InitDebounce /\ [][NextDebounce]_vars

\* The debounce engine with the admin's block flag, a few webhooks
NextBlock ==
    \/ \E f \in Fragments :
          Len(submitted) + drops < MaxWebhooks /\ AddToBuffer(f)
    \/ DropBlocked
    \/ BlockChat
    \/ UnblockChat
    \/ ArmTimer
    \/ \E t \in 1..Len(tasks) : TaskCancelled(t)
    \/ \E t \in 1..Len(tasks) : TimerExpires(t)
    \/ \E t \in 1..Len(tasks) : ReadBuffer(t)
    \/ \E t \in 1..Len(tasks) : ClearBuffer(t)
    \/ \E t \in 1..Len(tasks), r \in Responses \cup {<<>>} : HandlerReturns(t, r)
    \/ \E t \in 1..Len(tasks) : HandlerRaises(t)
    \/ \E t \in 1..Len(tasks) : AddUserHistory(t)
    \/ \E t \in 1..Len(tasks) : SendResponse(t)
    \/ Tick

SpecBlock == InitDebounce /\ [][NextBlock]_vars

InitFollowup ==
    /\ DebounceIdle
    /\ history = <<>>
    /\ \/ FollowupIdle
       \/ \E a \in InitAttempts : FollowupRunning(a)
    /\ OthersIdle

NextFollowup ==
    \/ SchedulerStep
    \/ TriggerStep
    \/ ScheduleFollowup
    \/ CancelRead
    \/ CancelWrite
    \/ ClockAdvance

SpecFollowup == InitFollowup /\ [][NextFollowup]_vars

\* A new lead being scheduled, the reply path cancelling and the scheduler,
\* in any interleaving; no manual trigger.
NextNewLead ==
    \/ ScheduleFollowup
    \/ CancelRead
    \/ CancelWrite
    \/ SchedulerStep
    \/ ClockAdvance

SpecNewLead == InitFollowup /\ [][NextNewLead]_vars

\* The scheduler alone, its collaborators in working order: no manual
\* trigger, no reply, no admin call; the generator returns a message and the
\* gateway accepts it.
NextScheduler ==
    \/ SchedulerWake
    \/ SchedulerCheck
    \/ SchedulerCancelRead
    \/ SchedulerCancelWrite
    \/ PreCheck("sch")
    \/ Generated("sch")
    \/ FinalCheck("sch")
    \/ Deliver("sch", TRUE)
    \/ SaveSent("sch")
    \/ AddAssistantHistory("sch")
    \/ ScheduleFollowup
    \/ ClockAdvance

SpecScheduler == InitFollowup /\ [][NextScheduler]_vars

\* The scheduler loop alone, with collaborators that may fail: the generator
\* may return nothing and the gateway may refuse the message.  No manual
\* trigger, no reply, no admin call.
NextSchedulerLoop ==
    \/ SchedulerStep
    \/ ScheduleFollowup
    \/ ClockAdvance

SpecSchedulerLoop == InitFollowup /\ [][NextSchedulerLoop]_vars

\* The tag processor applied to a response of the agent, and once more to the
\* same response, from each starting state of the lead.
InitTags ==
    /\ DebounceIdle
    /\ history = <<>>
    /\ FollowupIdle
    /\ \E state \in {EmptyState, WelcomeState} : TagIdle(state)
    /\ MediaIdle /\ LookupIdle /\ HistoryIdle /\ RestIdle

NextTags ==
    \/ ProcessResponse
    \/ ReprocessResponse

SpecTags == InitTags /\ [][NextTags]_vars

\* should_use_audio called on each message and flags of the model.
InitMedia == InitDebounce

NextMedia ==
    \/ DecideMedia
    \/ MediaDone

SpecMedia == InitMedia /\ [][NextMedia]_vars

\* get_lead_state called for each sender, on each content of the store.
InitLookup ==
    /\ DebounceIdle
    /\ history = <<>>
    /\ FollowupIdle
    /\ TagIdle(EmptyState) /\ MediaIdle /\ HistoryIdle /\ RestIdle
    /\ lookup = NoLookup
    /\ \E keys \in SUBSET SenderDigits :
          redis_state \in [keys -> UNION {StoredStates(k) : k \in keys}]
    /\ \A k \in DOMAIN redis_state : redis_state[k].key = k

NextLookup ==
    \/ GetLeadState
    \/ LookupDone

SpecLookup == InitLookup /\ [][NextLookup]_vars

\* The four callers of add_to_history appending to the history of one
\* sender, each between its rpush and its ltrim at its own pace.
NextHistory ==
    \/ \E a \in Appenders : Rpush(a)
    \/ \E a \in Appenders : Ltrim(a)

InitHistory ==
    /\ DebounceIdle
    /\ FollowupIdle
    /\ TagIdle(EmptyState) /\ MediaIdle /\ LookupIdle /\ RestIdle
    /\ HistoryRunning

SpecHistory == InitHistory /\ [][NextHistory]_vars

\* The numbering and the delivery of a follow-up, for each stored attempts
\* value and period, with a synthesizer and a gateway that may fail.
NextPlan ==
    \/ PlanFollowup
    \/ \E ok \in BOOLEAN : Synthesize(ok)
    \/ \E ok \in BOOLEAN : SendFollowup(ok)
    \/ SavePlan
    \/ PlanDone

SpecPlan == InitDebounce /\ [][NextPlan]_vars

\* The scheduler task, from start() on, with a store and leads that may
\* raise; every await of the task returns or raises in the end.
NextLoop ==
    \/ LoopWake
    \/ KeysReturn
    \/ KeysRaise
    \/ LeadReturns
    \/ LeadRaises
    \/ StopScheduler

SpecLoop == InitDebounce /\ [][NextLoop]_vars /\ WF_vars(LoopStep)

\* Webhooks of one sender against the registry of the agent's messages.
NextEcho ==
    \/ AddAiMessage
    \/ ProcessWebhook
    \/ WebhookDone

SpecEcho == InitDebounce /\ [][NextEcho]_vars

\* ------------------------------------------------------------------------
\* Claims about the debounce engine
\* ------------------------------------------------------------------------
\* No timer is armed, waiting or about to consolidate
TimersSettled ==
    /\ inflight = NoSubmit
    /\ \A t \in 1..Len(tasks) : tasks[t].pc \notin {"sleep", "lrange", "delete"}

AllFragments == [i \in 1..Len(submitted) |-> submitted[i].text]

\* Every fragment came less than the quiet window after the previous one
OneBurst == \A i \in 2..Len(submitted) : submitted[i].gap < redis_ttl_debounce

\* Every gap is shorter or longer than the quiet window, never equal to it
ClearGaps == \A i \in 2..Len(submitted) : submitted[i].gap # redis_ttl_debounce

\* The consolidated text of each gap-separated group, in submission order
RECURSIVE GroupsFrom(_, _, _)
GroupsFrom(i, closed, cur) ==
    IF i > Len(submitted) THEN Append(closed, Join(cur))
    ELSE IF submitted[i].gap > redis_ttl_debounce
         THEN GroupsFrom(i + 1, Append(closed, Join(cur)), <<submitted[i].text>>)
         ELSE GroupsFrom(i + 1, closed, Append(cur, submitted[i].text))

GroupTexts ==
    IF submitted = <<>> THEN <<>>
    ELSE GroupsFrom(2, <<>>, <<submitted[1].text>>)

\* C1: a burst of fragments, each less than the quiet window after the
\* previous one, makes the handler run exactly once, with all the fragments
\* of the burst joined by single spaces in submission order.
C1_OneCallPerBurst ==
    OneBurst =>
        /\ Len(calls) <= 1
        /\ (TimersSettled /\ submitted # <<>>) => calls = <<Join(AllFragments)>>

\* C2: with gaps longer than the quiet window between groups, the handler
\* runs once per group, each time with the fragments of that group only, in
\* submission order, however long the handler call lasts.
C2_OneCallPerGroup ==
    (ClearGaps /\ TimersSettled) => calls = GroupTexts

\* ------------------------------------------------------------------------
\* Claims about the follow-up scheduler
\* ------------------------------------------------------------------------
Senders == {"sch", "trg"}

\* process p takes a step
Steps(p) == proc'[p] # proc[p]

\* a follow-up message reaches the lead in this step
MessageSent == delivered' > delivered

AllIdle ==
    /\ \A p \in Senders : proc[p].pc = "idle"
    /\ canceller.pc = "idle"

\* C3: once the stored record has cancelled = true, no further follow-up
\* message is sent to the lead, whatever the timing.
C3_NoSendOnceCancelled == sentAfterCancel = 0

\* C4: after a cancel call has completed, the only follow-up message still
\* sent is that of a send already past its last cancellation checkpoint when
\* the cancel ran: a send that reaches its last checkpoint after the cancel
\* stops there, so no later wake sends anything.
C4_OnlyInFlightSendAfterCancel ==
    [][\A p \in Senders :
          (cancelledOnce /\ Steps(p) /\ proc[p].pc = "final")
              => proc'[p].pc = "idle"]_vars

\* C5: once a cancel has completed while the scheduler was not sending, no
\* wake of the scheduler sends a message or increments attempts.
C5_QuietCancelStopsScheduler ==
    [][quietCancel =>
          ~(/\ Steps("sch")
            /\ \/ proc["sch"].pc = "deliver" /\ MessageSent
               \/ proc["sch"].pc = "save")]_vars

C7_AttemptsCountDeliveries ==
    (AllIdle /\ followup # NoRecord) =>
        /\ followup.attempts = delivered
        /\ delivered <= MAX_FOLLOWUP_ATTEMPTS

\* C8: attempts stays within 0..9; once the 9th successful send is stored
\* the record keeps attempts = 9 and neither the scheduler nor the manual
\* trigger sends again.
C8_CappedAtNine ==
    /\ [](followup # NoRecord => followup.attempts \in 0..MAX_FOLLOWUP_ATTEMPTS)
    /\ [][(/\ followup # NoRecord
           /\ followup.attempts = MAX_FOLLOWUP_ATTEMPTS
           /\ delivered >= MAX_FOLLOWUP_ATTEMPTS)
             => /\ followup' # NoRecord
                /\ followup'.attempts = MAX_FOLLOWUP_ATTEMPTS
                /\ ~MessageSent]_vars

\* C9: no write to an existing record stores a smaller attempts value.
C9_AttemptsNeverDecrease ==
    [][(followup # NoRecord /\ followup' # NoRecord)
          => followup'.attempts >= followup.attempts]_vars

C16_OneMessagePerWindow ==
    [][(Steps("sch") /\ proc["sch"].pc = "deliver")
          => /\ sentWindow # <<proc["sch"].today, proc["sch"].period>>
             /\ delivered' = delivered + 1]_vars

\* the hours of the three send windows
WindowHours == {9, 14, 19}

\* C17: on a wake whose local hour is not 9, 14 or 19 the scheduler loop
\* starts no pass, sends no message and writes no follow-up record (the only
\* write at such an hour is that of a new lead being scheduled); hours 9, 14
\* and 19 map to morning, afternoon and night, every other hour to no period.
C17_NothingOutsideWindows ==
    /\ [](/\ get_current_period(9) = "morning"
          /\ get_current_period(14) = "afternoon"
          /\ get_current_period(19) = "night"
          /\ \A h \in (0..23) \ WindowHours : get_current_period(h) = "none")
    /\ [](proc["sch"].pc # "idle" => hour \in WindowHours)
    /\ [][hour \notin WindowHours
            => /\ proc'["sch"] = proc["sch"]
               /\ delivered' = delivered
               /\ history' = history
               /\ followup' = followup \/ scheduled' # scheduled]_vars

\* it is 11h, the lead has an active record with nothing sent yet, and the
\* scheduler is idle
C17_Witness ==
    /\ hour = 11
    /\ followup # NoRecord
    /\ ~followup.cancelled
    /\ followup.attempts < MAX_FOLLOWUP_ATTEMPTS
    /\ followup.last_sent = NoDay
    /\ proc["sch"].pc = "idle"

\* the record a cancel call read and is about to write back, if any
CancelWrites ==
    (IF canceller.pc = "write" /\ canceller'.pc = "idle"
     THEN {canceller.state} ELSE {})
    \cup
    (IF proc["sch"].pc = "cancel_write" /\ proc'["sch"].pc = "idle"
     THEN {proc["sch"].state} ELSE {})

C19_NoAttemptWithoutDelivery ==
    followup # NoRecord => followup.attempts <= delivered

\* C20: when generation returns nothing, the scheduler's pass ends there:
\* nothing is sent, the record and the history are left as they were, and
\* the record is still one that a wake of the same date and period takes
\* into the send path (not cancelled, attempts < 9, no send recorded for
\* that date and period).
C20_GenerationFailureLeavesNoTrace ==
    [][(/\ proc["sch"].pc = "generate"
        /\ Steps("sch")
        /\ proc'["sch"].pc # "final")
          => /\ proc'["sch"] = Idle
             /\ UNCHANGED <<followup, delivered, history>>
             /\ followup' # NoRecord
             /\ ~followup'.cancelled
             /\ followup'.attempts < MAX_FOLLOWUP_ATTEMPTS
             /\ ~(/\ followup'.last_sent = proc["sch"].today
                  /\ followup'.last_period = proc["sch"].period)]_vars

\* generation failed on a wake of the first morning and a later wake of the
\* same morning sent the message
C20_Witness ==
    /\ generationFailed
    /\ day = 1
    /\ hour = 9
    /\ sentWindow = <<1, "morning">>
    /\ proc["sch"].pc = "idle"

\* C21: a trigger request on a missing, cancelled or exhausted record starts
\* no send and changes nothing; an accepted one enters the send path whatever
\* the hour and passes both cancellation checkpoints; the attempt number a
\* send stores is the attempts stored at that moment plus one, so that a
\* triggered send and a scheduler send never store the same number.
C21_TriggerSharesSendPath ==
    /\ [][(/\ proc["trg"].pc = "idle"
            /\ callsMade' # callsMade
            /\ canceller' = canceller)
              => IF \/ followup = NoRecord
                    \/ followup.cancelled
                    \/ followup.attempts >= 9
                 THEN UNCHANGED <<proc, followup, delivered, history>>
                 ELSE proc'["trg"].pc = "pre"]_vars
    /\ [][(Steps("trg") /\ proc'["trg"].pc = "deliver")
              => /\ proc["trg"].pc = "final"
                 /\ followup # NoRecord
                 /\ ~followup.cancelled]_vars
    /\ [][\A p \in Senders :
            (Steps(p) /\ proc[p].pc = "save")
                => followup'.attempts = followup.attempts + 1]_vars

\* ------------------------------------------------------------------------
\* More properties of the debounce engine
\* ------------------------------------------------------------------------
\* timers armed and waiting, not cancelled
PendingTimers ==
    {t \in 1..Len(tasks) : tasks[t].pc = "sleep" /\ ~tasks[t].cancelReq}

\* timers that fired and are consolidating or running the turn, not cancelled
TurnsInFlight ==
    {t \in 1..Len(tasks) :
        /\ tasks[t].pc \in {"lrange", "delete", "handler", "history", "respond"}
        /\ ~tasks[t].cancelReq}

\* C11: there is at most one pending timer and at most one consolidated turn
\* in flight for the sender, and while the most recently armed timer is
\* pending the timer map entry refers to it.
C11_OneTimerPerSender ==
    /\ Cardinality(PendingTimers) <= 1
    /\ Cardinality(TurnsInFlight) <= 1
    /\ (tasks # <<>> /\ Pending(Len(tasks))) => debounce_tasks = Len(tasks)

\* C12: while the block flag of the sender is set the handler is not invoked
\* and no reply is sent, a timer armed before the block included.
C12_BlockedSenderIsSilent ==
    [][blocked => (calls' = calls /\ replies' = replies)]_vars

UserEntries == Cardinality({i \in 1..Len(history) : history[i].role = "user"})

\* turns whose handler was invoked and whose user entry is not yet written
AwaitingUserEntry ==
    {t \in 1..Len(tasks) : tasks[t].pc \in {"handler", "history"}}

C15_HandlerFailureSwallowed ==
    /\ [][\A t \in 1..Len(tasks) :
            (/\ tasks[t].pc = "handler"
             /\ ~tasks[t].cancelReq
             /\ tasks'[t].pc = "done")
                => /\ UNCHANGED <<buffer, bufferTTL, history, replies, calls,
                                  submitted, inflight>>
                   /\ Len(tasks') = Len(tasks)]_vars
    /\ [][\A t \in 1..Len(tasks) :
            tasks[t].pc = "done" => tasks'[t].pc = "done"]_vars

\* the only fragment was consolidated, its handler raised: one call, nothing
\* in the history, nothing in the buffer, no reply
C15_Witness ==
    /\ Len(submitted) = 1
    /\ Len(calls) = 1
    /\ tasks[1].pc = "done"
    /\ history = <<>>
    /\ buffer = <<>>
    /\ replies = 0

\* ------------------------------------------------------------------------
\* Claims about the tag processor
\* ------------------------------------------------------------------------
\* the markers of TAG_MAPPING that occur in a text
TagsIn(text) ==
    {i \in 1..Len(TAG_MAPPING) : Contains(text, TAG_MAPPING[i].tag)}

\* an objection marker occurs in a text
HasObjecaoMarker(text) ==
    \E i \in 1..Len(text) : ObjecaoMatches(SubSeq(text, i, Len(text)))

\* C22: the clean text returned for a response contains no recognized
\* marker, and the stored state carries, for every marker of the response
\* and every key that marker sets, a value set by a marker of the response.
C22_MarkersStrippedAndApplied ==
    tagCalls > 0 =>
        /\ TagsIn(clean) = {}
        /\ ~HasObjecaoMarker(clean)
        /\ \A i \in TagsIn(response) :
              \A k \in DOMAIN TAG_MAPPING[i].updates :
                 \E j \in TagsIn(response) :
                    /\ k \in DOMAIN TAG_MAPPING[j].updates
                    /\ lead_state[k] = TAG_MAPPING[j].updates[k]

\* two objection texts that differ at most in case and outer whitespace
SameObjecao(a, b) == Strip(Lower(a)) = Strip(Lower(b))

\* the objections of a list, each once, in order of first occurrence
RECURSIVE DistinctObjecoes(_, _)
DistinctObjecoes(found, acc) ==
    IF found = <<>> THEN acc
    ELSE LET o == Strip(Head(found)) IN
         DistinctObjecoes(Tail(found),
             IF o = <<>> \/ \E i \in 1..Len(acc) : SameObjecao(acc[i], o)
             THEN acc ELSE Append(acc, o))

QualificationTags == {1, 2}

\* C24: when the response contains no qualification marker, whatever other
\* markers it contains, etapa_spin becomes the first stage, in the order of
\* ETAPA_KEYWORDS, one of whose keywords occurs in the lowercased clean text,
\* and keeps its value when no keyword occurs.
C24_StageInferredWithoutQualification ==
    [][(tagCalls' = tagCalls + 1
        /\ TagsIn(response') \cap QualificationTags = {})
          => LET etapa == FirstStage(1, Lower(clean')) IN
             lead_state'.etapa_spin =
                IF etapa # Absent THEN etapa ELSE lead_state.etapa_spin]_vars

\* C25: a call writes the lead state to the store and returns it exactly
\* when the state it worked out differs from the state it was given; when
\* nothing changed it writes nothing and returns no state.
C25_WritesOnlyOnChange ==
    [][tagCalls' = tagCalls + 1
          => LET working == Processed(response', lead_state).new_state IN
             IF working # lead_state
             THEN /\ stateWrites' = stateWrites + 1
                  /\ lead_state' = working
                  /\ returned' = working
             ELSE /\ stateWrites' = stateWrites
                  /\ lead_state' = lead_state
                  /\ returned' = NoState]_vars

\* the first call qualified the lead and wrote the state, the second call on
\* the same response changed nothing and returned no state
C25_Witness ==
    /\ tagCalls = 2
    /\ stateWrites = 1
    /\ returned = NoState
    /\ lead_state.qualificacao = "quente"

NoAlternate == <<>>

\* the alternate form of a number: 12 digits starting with 55 get a 9 after
\* the 4th digit, 13 digits starting with 55 with a 9 in 5th place lose it
AlternateForm(digits) ==
    IF Len(digits) = 12 /\ digits[1] = 5 /\ digits[2] = 5
    THEN [i \in 1..13 |-> IF i <= 4 THEN digits[i]
                          ELSE IF i = 5 THEN 9 ELSE digits[i - 1]]
    ELSE IF /\ Len(digits) = 13
            /\ digits[1] = 5 /\ digits[2] = 5
            /\ digits[5] = 9
    THEN [i \in 1..12 |-> IF i <= 4 THEN digits[i] ELSE digits[i + 1]]
    ELSE NoAlternate

\* the record under a key has a non-empty segmento
Complete(key) ==
    /\ key \in DOMAIN redis_state
    /\ redis_state[key].segmento \notin {Absent, ""}

\* C27: the lookup returns the record under the primary key when it has a
\* non-empty segmento; otherwise the record under the alternate key when
\* that one has a segmento; otherwise the primary record, or nothing when
\* the primary key holds no record.
C27_LookupPrefersCompleteRecord ==
    lookup # NoLookup =>
        LET primary == lookup.sender
            alternate == AlternateForm(primary)
        IN
        lookup.result =
            IF Complete(primary) THEN redis_state[primary]
            ELSE IF alternate # NoAlternate /\ Complete(alternate)
                 THEN redis_state[alternate]
            ELSE IF primary \in DOMAIN redis_state THEN redis_state[primary]
            ELSE NoValue

\* the 12-digit number has a record without segmento, the number with the
\* extra 9 has a complete one: the lookup of the former returns the latter
C27_Witness ==
    /\ lookup # NoLookup
    /\ Len(lookup.sender) = 12
    /\ lookup.sender \in DOMAIN redis_state
    /\ ~Complete(lookup.sender)
    /\ lookup.result # NoValue
    /\ Len(lookup.result.key) = 13
    /\ lookup.result.segmento = "varejo"

\* ------------------------------------------------------------------------
\* Claims about the conversation history
\* ------------------------------------------------------------------------
\* every add_to_history call made has returned
AppendsCompleted == \A a \in Appenders : appender[a] = "idle"

PassesGuard(t) == tasks[t].pc = "lrange" /\ tasks'[t].pc = "delete"

\* the timer has left its asyncio.sleep and not yet ended
PastQuietWait(t) ==
    tasks[t].pc \in {"lrange", "delete", "handler", "history", "respond"}

\* C29: a timer that reaches expiry goes on to consolidate only if the last
\* entry of the buffer is the fragment that armed it; a last entry with
\* another text, one that contains the arming text included, or an empty
\* buffer, makes the timer end without clearing the buffer or calling the
\* handler.
C29_GuardMatchesArmingFragment ==
    [][\A t \in 1..Len(tasks) :
          PassesGuard(t) =>
              /\ buffer # <<>>
              /\ buffer[Len(buffer)] = tasks[t].text]_vars

\* C30: a cancel() that reaches a timer after its quiet wait completed is a
\* no-op: the only timers a cancellation ends are those still in their wait,
\* so a turn that began reading the buffer runs to its reply.
C30_CancelAfterWaitIsNoOp ==
    [][\A t \in 1..Len(tasks) :
          (PastQuietWait(t) /\ tasks[t].cancelReq) => tasks'[t].pc # "done"]_vars

\* ------------------------------------------------------------------------
\* Claims about the fragments of the debounce buffer
\* ------------------------------------------------------------------------
\* C31: reading the buffer and clearing it act as one step with respect to
\* the submits: a timer clears exactly the fragments it read, so that once
\* the timers have ended and the buffer is empty the consolidated texts of
\* the handler invocations hold every fragment submitted exactly once.
C31_NoFragmentLostOrDuplicated ==
    (TimersSettled /\ buffer = <<>>) => Join(calls) = Join(AllFragments)

\* ------------------------------------------------------------------------
\* Claims about the writes of the follow-up send path
\* ------------------------------------------------------------------------
\* sender p stores the record of its send in this step
SavesSend(p) == Steps(p) /\ proc[p].pc = "save"

\* C32: the save of a send, by the scheduler or by the manual trigger,
\* leaves the cancelled field of the stored record as it finds it: a cancel
\* that stored cancelled = true while the send was in flight is still there
\* after the save.
C32_SendKeepsCancelled ==
    [][\A p \in Senders :
          (SavesSend(p) /\ followup # NoRecord)
              => followup'.cancelled = followup.cancelled]_vars


\* C33: a follow-up send that was delivered stores attempts one above the
\* stored value, last_period = the period of the send and last_sent = the
\* date of the send, and then appends one assistant entry with the text sent
\* to the history; the entry is appended only behind the delivery and the
\* save, and nothing else of the send path touches record or history.
C33_SendBookkeeping ==
    [][\A p \in Senders :
          Steps(p) =>
              /\ proc[p].pc = "save" =>
                    /\ followup'.attempts = followup.attempts + 1
                    /\ followup'.last_period = proc[p].period
                    /\ followup'.last_sent = day
                    /\ history' = history
                    /\ proc'[p].pc = "history"
              /\ proc[p].pc = "history" =>
                    /\ history' = add_to_history(history, "assistant",
                                                 FollowupMessage)
                    /\ followup' = followup
              /\ proc'[p].pc = "history" => proc[p].pc = "save"
              /\ proc'[p].pc = "save" => proc[p].pc = "deliver"
              /\ proc[p].pc \in {"pre", "generate", "final", "deliver"} =>
                    followup' = followup /\ history' = history]_vars

\* ------------------------------------------------------------------------
\* Claims about the numbering and the medium of a follow-up
\* ------------------------------------------------------------------------
\* the send of the plan has been handed to the gateway
PlanSent == plan # NoPlan /\ plan.pc \in {"save", "done"}

\* the new attempt number is stored + 1, in 1..9, and the day is
\* ceil(attempt / 3), in 1..3
PlanNumbering ==
    plan # NoPlan =>
        /\ plan.attempt = plan.stored + 1
        /\ plan.attempt \in 1..9
        /\ plan.day \in 1..3
        /\ 3 * (plan.day - 1) < plan.attempt
        /\ plan.attempt <= 3 * plan.day

EvenAfternoon ==
    plan.period = "afternoon" /\ plan.attempt % 2 = 0

PassKeys == {loop.keys[i] : i \in 1..Len(loop.keys)}

\* a pass over at least one lead has ended and the task sleeps
PassOver == loop.pc = "sleep" /\ loop.keys # <<>>

\* C35: an exception raised while one lead is processed does not keep the
\* other leads of the wake from being processed: when the pass ends every
\* lead of the wake was processed or raised.  No exception of a wake stops
\* the loop: while the scheduler is not stopped every pass ends and every
\* sleep is followed by another wake.
C35_SchedulerIsErrorBoundary ==
    /\ [](PassOver => (loop.done \cup loop.raised) = PassKeys)
    /\ [](loop.pc = "lead" => loop.raised \subseteq PassKeys)
    /\ [](loop.pc \in {"keys", "lead"} => <>(loop.pc \in {"sleep", "stopped"}))
    /\ [](loop.pc = "sleep" => <>(loop.pc \in {"keys", "stopped"}))

\* the first lead of the wake raised, the two after it were processed
C35_Witness ==
    /\ PassOver
    /\ loop.keys = <<"a", "b", "c">>
    /\ loop.raised = {"a"}
    /\ loop.done = {"b", "c"}

\* ------------------------------------------------------------------------
\* Claims about the echo filter
\* ------------------------------------------------------------------------
\* the text of the webhook, newlines replaced and trimmed, is an entry of
\* the registry
MatchesRegistry ==
    \E i \in 1..Len(ai_messages) :
        Strip(ReplaceNewlines(inbound.text)) = ai_messages[i]

\* C36: a webhook is dropped as an echo only when its text, newlines
\* replaced and trimmed, equals an entry of the sender's registry; a message
\* that is not from the bot, of an unblocked sender, with text, and equal to
\* no entry (a text contained in a longer entry included) is buffered.
C36_EchoFilterMatchesWholeMessage ==
    inbound # NoInbound =>
        /\ inbound.result = "ai_message" => MatchesRegistry
        /\ (/\ ~inbound.is_from_me
            /\ ~inbound.is_blocked
            /\ inbound.text # NoText
            /\ ~MatchesRegistry) => inbound.result = "buffered"

\* ------------------------------------------------------------------------
\* Claims about a reply and the scheduling of a new lead
\* ------------------------------------------------------------------------
\* some cancel_followup call of the reply path has returned
CancelReturned == callsMade > (IF canceller.pc = "idle" THEN 0 ELSE 1)

\* the record makes the scheduler send: not cancelled, attempts below 9
ActiveRecord ==
    /\ followup # NoRecord
    /\ ~followup.cancelled
    /\ followup.attempts < MAX_FOLLOWUP_ATTEMPTS

\* C37: once the cancel call of the reply path has returned the sender has
\* no active follow-up record at any later time, whatever the interleaving
\* with the processing of the new lead, a reply handled before
\* schedule_followup ran included.
C37_NoActiveRecordAfterReply == CancelReturned => ~ActiveRecord

\* ------------------------------------------------------------------------
\* Claims about an exhausted follow-up record
\* ------------------------------------------------------------------------
\* the stored record has attempts = 9 and cancelled = true
ExhaustedAndCancelled ==
    /\ followup # NoRecord
    /\ followup.attempts = MAX_FOLLOWUP_ATTEMPTS
    /\ followup.cancelled

\* the scheduler stores a record in this step (_save_followup_state, which
\* sets the time-to-live of the key anew)
SchedulerWrites ==
    Steps("sch") /\ proc["sch"].pc \in {"save", "cancel_write"}

\* C38: once the record is exhausted and marked cancelled the scheduler
\* makes no further write to it on any later wake, so that the time-to-live
\* of the key is not set anew.
C38_ExhaustedRecordLeftAlone ==
    [][ExhaustedAndCancelled => ~SchedulerWrites]_vars

\* ------------------------------------------------------------------------
\* Claims about the qualification of a lead in the state and in the CRM
\* ------------------------------------------------------------------------
\* the response of the last call held a qualification marker, so the call
\* sent a qualification level to the CRM
QualificationSent ==
    /\ tagCalls > 0
    /\ \/ Contains(response, Tag("QUALIFICADO"))
       \/ Contains(response, Tag("NAO_QUALIFICADO"))

\* C39: after process_tags has handled a response holding a qualification
\* marker, the qualificacao stored in the lead state equals the level the
\* same call sent to the CRM, whatever other markers the response holds.
C39_StateMatchesCrm ==
    QualificationSent => lead_state.qualificacao = crm.qualificacao

====
